---- MODULE Spec2Model ----
(***************************************************************************)
(* Symbol-stream decode pipeline of the PCIe analyzer gateware:            *)
(*   RXSKPRemover       (pcie_analyzer/rx_skp_remover.py)                  *)
(*   DetectOrderedSets  (pcie_analyzer/detect_ordered_sets.py)             *)
(*   lfsr, Descrambler  (pcie_analyzer/descrambler.py)                     *)
(* Every synchronous block is one action: one firing is one clock edge.    *)
(* A state holds the register values visible during one cycle.             *)
(***************************************************************************)
EXTENDS Integers, Sequences, FiniteSets, TLC

VARIABLES
    \* RXSKPRemover registers
    sr_data, sr_ctrl, sr_bytes,
    \* RXSKPRemover observation: symbols accepted / transferred so far, the
    \* number of accepted words and the handshake of the last clock edge
    sink_log, source_log, words_in, hs,
    \* DetectOrderedSets registers: the shift window word[0..9], the drain
    \* counter and the registered source.osets / source.type
    word, osets_pattern, det_osets, det_type,
    \* DetectOrderedSets observation: the sink words of the last cycles (most
    \* recent first), the ordered sets sent so far with the age of their COM,
    \* the lanes tagged since the last detection (with the mask, the type and
    \* the counter value registered by it), and the number of cycles
    sink_hist, os_log, ev, cycle,
    \* the symbol source driving the sink
    gen,
    \* Descrambler registers: lfsr.value and the registered source
    lfsr_value, desc_data, desc_ctrl, desc_osets, desc_type,
    \* Descrambler handshake signals source.valid and sink.ready
    desc_source_valid, desc_sink_ready,
    \* Descrambler observation: the sink word and the LFSR state of the cycle
    \* before, the number of cycles, and, while every word received since
    \* reset was an all-zero data word, their number n with the reference
    \* register ref before the last of them (n is -1 once one was not)
    desc_in, lfsr_prev, dcycle, zrun,
    \* the transmitter of the round trip: its LFSR and the unscrambled words
    \* it sent in the last cycles (most recent first)
    tx_lfsr, orig_hist,
    \* the DetectOrderedSets of descrambler.py, fed the sink words of the one of
    \* detect_ordered_sets.py: its shift window, drain counter and registered
    \* source.osets / source.type, and the sink.valid of the cycle
    dd_word, dd_osets_pattern, dd_osets, dd_type, det_sink_valid,
    \* Recorder: the FSM state, the count register and the base and length
    \* registers of the host
    rec_state, rec_count, rec_base, rec_length,
    \* Recorder observation: the addresses written since the last start pulse
    \* and, for the last clock edge, the FSM state before it, whether a start
    \* pulse came, a write was issued and a word was taken from the FIFO
    rec_log, rec_hs,
    \* GTPRXBIST registers: the error counter and the word received last
    bist_errors, bist_data_last,
    \* GTPRXBIST observation: enable and the word received at the last clock
    \* edge, the mismatches counted since enable last was low, and the number
    \* of cycles
    bist_hs, bist_ref, bist_cycle

skpvars == <<sr_data, sr_ctrl, sr_bytes, sink_log, source_log, words_in, hs>>

detvars == <<word, osets_pattern, det_osets, det_type, sink_hist, os_log, ev, cycle, gen>>

descvars == <<lfsr_value, desc_data, desc_ctrl, desc_osets, desc_type,
              desc_source_valid, desc_sink_ready,
              desc_in, lfsr_prev, dcycle, zrun>>

txvars == <<tx_lfsr, orig_hist>>

dupvars == <<dd_word, dd_osets_pattern, dd_osets, dd_type, det_sink_valid>>

recvars == <<rec_state, rec_count, rec_base, rec_length, rec_log, rec_hs>>

bistvars == <<bist_errors, bist_data_last, bist_hs, bist_ref, bist_cycle>>

vars == <<skpvars, detvars, descvars, txvars, dupvars, recvars, bistvars>>

(***************************************************************************)
(* Bounds                                                                  *)
(***************************************************************************)
MaxWords == 3

\* ordered sets sent in one run, free symbols allowed before a set starts,
\* and cycles of one run
MaxSets == 1

MaxGap == 2

MaxCycles == 22

\* cycles of one run of the Descrambler on free input
MaxDescCycles == 3

\* cycles of one run of the Descrambler started in any LFSR state
MaxAnyCycles == 1

\* words of one run of RXSKPRemover against a stalling downstream
MaxStallWords == 3

\* words of one burst in which every word carries one filler symbol
BurstWords == 10

(***************************************************************************)
(* Helpers                                                                 *)
(***************************************************************************)
Pow2(n) == 2 ^ n

Bit(v, i) == (v \div Pow2(i)) % 2

K(x, y) == (y * 32) + x

D(x, y) == (y * 32) + x

TWO(x) == (x * 256) + x

Slice(v, lo, hi) == (v \div Pow2(lo)) % Pow2(hi - lo)

PopCount2(m) == Bit(m, 0) + Bit(m, 1)

IsPrefix(s, t) == /\ Len(s) <= Len(t)
                  /\ \A i \in 1..Len(s) : s[i] = t[i]

(***************************************************************************)
(* RXSKPRemover                                                            *)
(* A 4-lane word is a pair <<data, ctrl>> of two 4-element sequences,      *)
(* lane 0 first.                                                           *)
(***************************************************************************)
SKP_FILL == K(28, 1)

\* skp[i] = sink.ctrl[i] & (sink.data[8*i:8*(i+1)] == K(28, 1))
skp_other(w, i) == w[2][i + 1] = 1 /\ w[1][i + 1] = K(28, 0)

skp(w, i) == w[2][i + 1] = 1 /\ w[1][i + 1] = SKP_FILL

RECURSIVE Surviving(_, _)
\* the lanes j >= i of the word whose skp bit is clear, in ascending order
Surviving(w, i) ==
    IF i > 3 THEN <<>>
    ELSE (IF skp(w, i) THEN <<>> ELSE <<i>>) \o Surviving(w, i + 1)

frag_bytes(w) == Len(Surviving(w, 0))

Pad4(s) == s \o [k \in 1..(4 - Len(s)) |-> 0]

frag_data_rev(w) ==
    Pad4([k \in 1..frag_bytes(w) |-> w[1][Surviving(w, 0)[frag_bytes(w) + 1 - k] + 1]])

frag_data(w) == Pad4([k \in 1..frag_bytes(w) |-> w[1][Surviving(w, 0)[k] + 1]])

frag_ctrl(w) == Pad4([k \in 1..frag_bytes(w) |-> w[2][Surviving(w, 0)[k] + 1]])

\* Case(frag_bytes, cases): Cat(sr[8*i:], frag[0:8*i]); case 0 keeps sr
ShiftIn(sr, frag, i) == SubSeq(sr, i + 1, 8) \o SubSeq(frag, 1, i)

sink_ready_off == sr_bytes <= 8

sink_ready == sr_bytes <= 7

source_valid_five == sr_bytes >= 5

source_valid_low == sr_bytes >= 4 /\ sr_bytes <= 7

source_valid_early == sr_bytes >= 3

source_valid == sr_bytes >= 4

\* Case(sr_bytes, {4..7}); a combinatorial signal no case drives is 0
source_data == IF sr_bytes \in 4..7
               THEN SubSeq(sr_data, 9 - sr_bytes, 12 - sr_bytes)
               ELSE <<0, 0, 0, 0>>

source_ctrl == IF sr_bytes \in 4..7
               THEN SubSeq(sr_ctrl, 9 - sr_bytes, 12 - sr_bytes)
               ELSE <<0, 0, 0, 0>>

\* the symbols <<byte, ctrl>> of a word's fragment / of a source word
Symbols(data, ctrl, n) == [k \in 1..n |-> <<data[k], ctrl[k]>>]

\* Input words: lane j of the n-th accepted word is either the filler symbol
\* or a byte that identifies the lane, its ctrl bit following its parity.
LaneId(n, j) == (4 * n) + j + 1

SinkWord(n, m) ==
    << [j \in 1..4 |-> IF Bit(m, j - 1) = 1 THEN SKP_FILL ELSE LaneId(n, j - 1)],
       [j \in 1..4 |-> IF Bit(m, j - 1) = 1 THEN 1 ELSE LaneId(n, j - 1) % 2] >>

SinkWords(n) == { SinkWord(n, m) : m \in 0..15 }

SkpReset ==
    /\ sr_data = <<0, 0, 0, 0, 0, 0, 0, 0>>
    /\ sr_ctrl = <<0, 0, 0, 0, 0, 0, 0, 0>>
    /\ sr_bytes = 0
    /\ sink_log = <<>>
    /\ source_log = <<>>
    /\ words_in = 0
    /\ hs = [offer |-> FALSE, rdy |-> FALSE, acc |-> FALSE, out |-> FALSE, fill |-> 0,
             word |-> <<>>]

\* one clock edge of the sync block, for one value of the three inputs
SkpEdge(sink_valid, w, source_ready) ==
    LET acc == sink_valid /\ sink_ready
        out == source_valid /\ source_ready
        fb  == frag_bytes(w)
    IN  /\ sr_bytes' = IF acc
                       THEN (IF out THEN (sr_bytes + fb + 12) % 16
                                    ELSE (sr_bytes + fb) % 16)
                       ELSE (IF out THEN (sr_bytes + 12) % 16 ELSE sr_bytes)
        /\ sr_data' = IF acc THEN ShiftIn(sr_data, frag_data(w), fb) ELSE sr_data
        /\ sr_ctrl' = IF acc THEN ShiftIn(sr_ctrl, frag_ctrl(w), fb) ELSE sr_ctrl
        /\ sink_log' = IF acc
                       THEN sink_log \o Symbols(frag_data(w), frag_ctrl(w), fb)
                       ELSE sink_log
        /\ source_log' = IF out
                         THEN source_log \o Symbols(source_data, source_ctrl, 4)
                         ELSE source_log
        /\ words_in' = IF acc THEN words_in + 1 ELSE words_in
        /\ hs' = [offer |-> sink_valid, rdy |-> source_ready,
                  acc |-> acc, out |-> out, fill |-> sr_bytes,
                  word |-> IF acc THEN w ELSE <<>>]

SkpClock ==
    \E sink_valid \in BOOLEAN, source_ready \in BOOLEAN :
        \E w \in (IF sink_valid THEN SinkWords(words_in) ELSE {SinkWord(words_in, 0)}) :
            /\ sink_valid => words_in < MaxWords
            /\ SkpEdge(sink_valid, w, source_ready)

\* Words that leave 4, 3, 2 or 1 bytes: no filler, or fillers in the lowest
\* one, two or three lanes.
StallWords(n) == { SinkWord(n, m) : m \in {0, 1, 3, 7} }

\* a clock edge with such a word offered or none, the downstream ready or not
StallClock ==
    \E sink_valid \in BOOLEAN, source_ready \in BOOLEAN :
        \E w \in (IF sink_valid THEN StallWords(words_in) ELSE {SinkWord(words_in, 0)}) :
            /\ sink_valid => words_in < MaxStallWords
            /\ SkpEdge(sink_valid, w, source_ready)

\* words of one run of RXSKPRemover on look-alikes of the filler
MaxFragWords == 1

\* The symbols close to the filler K(28,1): its byte with ctrl clear, and the
\* detector's SKIP character K(28,0) with ctrl set and with ctrl clear.
LookAlikes == { <<K(28, 1), 0>>, <<K(28, 0), 1>>, <<K(28, 0), 0>> }

\* Words whose lanes in f carry the filler, whose lanes in a carry the
\* look-alike s and whose other lanes carry a byte that identifies the lane;
\* a word has any set of filler lanes and at most one look-alike.
FragWord(n, f, a, s) ==
    << [j \in 1..4 |-> IF (j - 1) \in f THEN SKP_FILL
                       ELSE IF (j - 1) \in a THEN s[1] ELSE LaneId(n, j - 1)],
       [j \in 1..4 |-> IF (j - 1) \in f THEN 1
                       ELSE IF (j - 1) \in a THEN s[2] ELSE 0] >>

FragWords(n) ==
    { FragWord(n, f, a, s) : f \in SUBSET (0..3),
                             a \in {{}} \cup { {j} : j \in 0..3 },
                             s \in LookAlikes }

\* a clock edge with such a word offered or none, the downstream ready or not
FragClock ==
    \E sink_valid \in BOOLEAN, source_ready \in BOOLEAN :
        \E w \in (IF sink_valid THEN FragWords(words_in) ELSE {SinkWord(words_in, 0)}) :
            /\ sink_valid => words_in < MaxFragWords
            /\ SkpEdge(sink_valid, w, source_ready)

\* words of one run of RXSKPRemover against a downstream that is always ready
MaxReadyWords == 4

\* Words that leave 4, 3, 2, 1 or 0 bytes.
ReadyWords(n) == { SinkWord(n, m) : m \in {0, 1, 3, 7, 15} }

\* a clock edge with such a word offered or none; source.ready is high
ReadyClock ==
    \E sink_valid \in BOOLEAN :
        \E w \in (IF sink_valid THEN ReadyWords(words_in) ELSE {SinkWord(words_in, 0)}) :
            /\ sink_valid => words_in < MaxReadyWords
            /\ SkpEdge(sink_valid, w, TRUE)

\* A burst: the downstream is ready in every cycle and every cycle offers a
\* word with exactly one filler symbol; the lane of the filler is any lane
\* but one, which rotates with the words.
FillerLanes(n) == (0..3) \ {(n + 3) % 4}

BurstWord ==
    /\ words_in < BurstWords
    /\ \E l \in FillerLanes(words_in) :
         SkpEdge(TRUE, SinkWord(words_in, Pow2(l)), TRUE)

\* after the burst the sink offers nothing and the downstream stays ready
BurstFlush ==
    /\ words_in = BurstWords
    /\ SkpEdge(FALSE, SinkWord(words_in, 0), TRUE)


(***************************************************************************)
(* DetectOrderedSets                                                       *)
(* A window word is the 18-bit value                                       *)
(*   Cat(sink.data[UPPER_BYTE], sink.data[LOWER_BYTE], ctrl[1], ctrl[0]).  *)
(* A sink word is a record [data: 16 bits, ctrl: 2 bits].                  *)
(***************************************************************************)
DATA == 0
SKIP == 1
IDLE == 2
FTS == 3
TS1 == 4
TS2 == 5
COMPLIANCE == 6
MODIFIED_COMPLIANCE == 7

COM == K(28, 5)

UPPER_BYTE(v) == Slice(v, 8, 16)
LOWER_BYTE(v) == Slice(v, 0, 8)
DATA_WORD(v) == Slice(v, 0, 16)
UPPER_K(v) == Bit(v, 17)
LOWER_K(v) == Bit(v, 16)

SwapWord_flags(snk) ==
    UPPER_BYTE(snk.data) + (256 * LOWER_BYTE(snk.data))
    + (65536 * Bit(snk.ctrl, 0)) + (131072 * Bit(snk.ctrl, 1))

\* Cat(sink.data[UPPER_BYTE], sink.data[LOWER_BYTE], sink.ctrl[1], sink.ctrl[0])
SwapWord(snk) ==
    UPPER_BYTE(snk.data) + (256 * LOWER_BYTE(snk.data))
    + (65536 * Bit(snk.ctrl, 1)) + (131072 * Bit(snk.ctrl, 0))

ShiftWindow_short(w, snk) ==
    [i \in 0..9 |-> IF i = 0 THEN SwapWord(snk) ELSE IF i = 9 THEN w[7] ELSE w[i - 1]]

\* the shift register: word0 takes the swapped sink word, wordN takes wordN-1
ShiftWindow(w, snk) == [i \in 0..9 |-> IF i = 0 THEN SwapWord(snk) ELSE w[i - 1]]

det_source_data == DATA_WORD(word[9])

det_source_ctrl == Slice(word[9], 16, 18)

\* comb: source.valid and sink.ready are driven with the constant 1
det_source_valid == TRUE

det_sink_ready == TRUE

ShiftPattern_one(p) == (2 * Slice(p, 0, 15)) % 65536

\* Cat(0, 0, osets_pattern[0:15]) assigned to the 16-bit osets_pattern
ShiftPattern(p) == (4 * Slice(p, 0, 15)) % 65536

Drain_pulse(p, t) ==
    IF Slice(p, 14, 16) # 0
    THEN [o |-> Slice(p, 14, 16), t |-> DATA, p |-> ShiftPattern(p)]
    ELSE [o |-> 0, t |-> DATA, p |-> p]

Drain_keep(p, t) ==
    IF Slice(p, 14, 16) # 0
    THEN [o |-> Slice(p, 14, 16), t |-> t, p |-> ShiftPattern(p)]
    ELSE [o |-> 0, t |-> t, p |-> p]

\* "Generates osets bits during ordered sets detection": the value the drain
\* statement assigns to <<source.osets, source.type, osets_pattern>>
Drain(p, t) ==
    IF Slice(p, 14, 16) # 0
    THEN [o |-> Slice(p, 14, 16), t |-> t, p |-> ShiftPattern(p)]
    ELSE [o |-> 0, t |-> DATA, p |-> p]

Triplet_w7(w, c) == DATA_WORD(w[7]) = TWO(c)

Triplet(w, c) == LOWER_BYTE(w[8]) = c /\ DATA_WORD(w[7]) = TWO(c)

TripletLow(w, c) == DATA_WORD(w[7]) = TWO(c) /\ UPPER_BYTE(w[6]) = c

Training_off(w, id) == \A i \in 0..4 : DATA_WORD(w[i]) = TWO(id)

Training(w, id) == \A i \in 1..5 : DATA_WORD(w[i]) = TWO(id)

TrainingLow(w, id) ==
    /\ LOWER_BYTE(w[5]) = id
    /\ \A i \in 1..4 : DATA_WORD(w[i]) = TWO(id)
    /\ UPPER_BYTE(w[0]) = id

Compliance(w) ==
    /\ LOWER_BYTE(w[8]) = D(21, 5)
    /\ UPPER_BYTE(w[7]) = COM
    /\ LOWER_BYTE(w[7]) = D(10, 2)

ModifiedCompliance_any(w) == Compliance(w)

ModifiedCompliance(w) ==
    /\ Compliance(w)
    /\ UPPER_BYTE(w[5]) = COM
    /\ LOWER_BYTE(w[5]) = COM

ComplianceLow(w) ==
    /\ UPPER_BYTE(w[7]) = D(21, 5)
    /\ LOWER_BYTE(w[7]) = COM
    /\ UPPER_BYTE(w[6]) = D(10, 2)

ModifiedComplianceLow(w) ==
    /\ ComplianceLow(w)
    /\ LOWER_BYTE(w[5]) = COM
    /\ UPPER_BYTE(w[4]) = COM

\* "COMMA is in upper nibble" / "COMMA is in lower nibble"
CommaUpper_any(w) == UPPER_BYTE(w[8]) = COM

CommaUpper(w) == UPPER_BYTE(w[8]) = COM /\ UPPER_K(w[8]) = 1

CommaLower_off(w) == LOWER_BYTE(w[7]) = COM /\ LOWER_K(w[7]) = 1

CommaLower(w) == LOWER_BYTE(w[8]) = COM /\ LOWER_K(w[8]) = 1

\* The pattern statements in source order; each assigns
\* <<source.osets, source.type, osets_pattern>> when its condition holds.
Rules(w) == <<
    [c |-> CommaUpper(w) /\ Triplet(w, K(28, 0)), o |-> 3, t |-> SKIP, p |-> 49152],
    [c |-> CommaUpper(w) /\ Triplet(w, K(28, 3)), o |-> 3, t |-> IDLE, p |-> 49152],
    [c |-> CommaUpper(w) /\ Triplet(w, K(28, 1)), o |-> 3, t |-> FTS, p |-> 49152],
    [c |-> CommaUpper(w) /\ Training(w, D(10, 2)), o |-> 3, t |-> TS1, p |-> 65532],
    [c |-> CommaUpper(w) /\ Training(w, D(5, 2)), o |-> 3, t |-> TS2, p |-> 65532],
    [c |-> CommaUpper(w) /\ ModifiedCompliance(w),
        o |-> 3, t |-> MODIFIED_COMPLIANCE, p |-> 64512],
    [c |-> CommaUpper(w) /\ ~ModifiedCompliance(w) /\ Compliance(w),
        o |-> 3, t |-> COMPLIANCE, p |-> 49152],
    [c |-> CommaLower(w) /\ TripletLow(w, K(28, 0)), o |-> 1, t |-> SKIP, p |-> 57344],
    [c |-> CommaLower(w) /\ TripletLow(w, K(28, 3)), o |-> 1, t |-> IDLE, p |-> 57344],
    [c |-> CommaLower(w) /\ TripletLow(w, K(28, 1)), o |-> 1, t |-> FTS, p |-> 57344],
    [c |-> CommaLower(w) /\ TrainingLow(w, D(10, 2)), o |-> 3, t |-> TS1, p |-> 65532],
    [c |-> CommaLower(w) /\ TrainingLow(w, D(5, 2)), o |-> 3, t |-> TS2, p |-> 65532],
    [c |-> CommaLower(w) /\ ModifiedComplianceLow(w),
        o |-> 1, t |-> MODIFIED_COMPLIANCE, p |-> 65024],
    [c |-> CommaLower(w) /\ ~ModifiedComplianceLow(w) /\ ComplianceLow(w),
        o |-> 1, t |-> COMPLIANCE, p |-> 57344] >>

Fired(w) == { i \in 1..Len(Rules(w)) : Rules(w)[i].c }

Max_first(S) == CHOOSE x \in S : \A y \in S : x <= y

Max(S) == CHOOSE x \in S : \A y \in S : y <= x

\* the last assignment of the sync block wins
Registered(w, p, t) ==
    IF Fired(w) = {} THEN Drain(p, t)
    ELSE LET r == Rules(w)[Max(Fired(w))] IN [o |-> r.o, t |-> r.t, p |-> r.p]

\* one clock edge of the sync block for the sink word snk
DetEdge(snk) ==
    LET r == Registered(word, osets_pattern, det_type)
    IN  /\ det_osets' = r.o
        /\ det_type' = r.t
        /\ osets_pattern' = r.p
        /\ word' = ShiftWindow(word, snk)
        /\ ev' = IF Fired(word) # {}
                 THEN [type |-> r.t, first |-> r.o, lanes |-> PopCount2(r.o), cycles |-> 1,
                       load |-> r.p]
                 ELSE IF r.o # 0
                 THEN [ev EXCEPT !.lanes = @ + PopCount2(r.o), !.cycles = @ + 1]
                 ELSE ev

(***************************************************************************)
(* The symbol source.  A symbol is <<byte, k>>.  The stream is a sequence  *)
(* of free data symbols and of ordered sets; two symbols make a sink word, *)
(* the first-transmitted one in the lower byte of sink.data.               *)
(***************************************************************************)
PAD == K(23, 7)
STP == K(27, 7)
END == K(29, 7)

Rep(n, x) == [i \in 1..n |-> x]

Kinds == {"SKIP", "IDLE", "FTS", "TS1", "TS2", "COMPLIANCE", "MODIFIED_COMPLIANCE",
          "SKIP_D", "TLP", "SKIP_NOCOM", "TS1_NOCOM", "COM2_TS1", "COM2_SKIP_TS1"}

SetSyms(kind) ==
    CASE kind = "SKIP" -> <<<<COM, 1>>>> \o Rep(3, <<K(28, 0), 1>>)
      [] kind = "IDLE" -> <<<<COM, 1>>>> \o Rep(3, <<K(28, 3), 1>>)
      [] kind = "FTS" -> <<<<COM, 1>>>> \o Rep(3, <<K(28, 1), 1>>)
      [] kind = "TS1" -> << <<COM, 1>>, <<PAD, 1>>, <<PAD, 1>>, <<32, 0>>, <<2, 0>>, <<0, 0>> >>
                         \o Rep(10, <<D(10, 2), 0>>)
      [] kind = "TS2" -> << <<COM, 1>>, <<PAD, 1>>, <<PAD, 1>>, <<32, 0>>, <<2, 0>>, <<0, 0>> >>
                         \o Rep(10, <<D(5, 2), 0>>)
      [] kind = "COMPLIANCE" -> << <<COM, 1>>, <<D(21, 5), 0>>, <<COM, 1>>, <<D(10, 2), 0>> >>
      [] kind = "MODIFIED_COMPLIANCE" ->
             << <<COM, 1>>, <<D(21, 5), 0>>, <<COM, 1>>, <<D(10, 2), 0>>,
                <<0, 0>>, <<0, 0>>, <<COM, 1>>, <<COM, 1>> >>
      [] kind = "SKIP_D" -> <<<<COM, 1>>>> \o Rep(3, <<K(28, 0), 0>>)
      [] kind = "TLP" -> << <<STP, 1>>, <<165, 0>>, <<90, 0>>, <<END, 1>> >>
      [] kind = "SKIP_NOCOM" -> <<<<COM, 0>>>> \o Rep(3, <<K(28, 0), 1>>)
      [] kind = "COM2_TS1" ->
             << <<COM, 1>>, <<COM, 1>>, <<1, 0>>, <<2, 0>>, <<3, 0>>, <<4, 0>> >>
             \o Rep(11, <<D(10, 2), 0>>)
      [] kind = "COM2_SKIP_TS1" ->
             << <<COM, 1>>, <<COM, 1>> >> \o Rep(3, <<K(28, 0), 1>>) \o << <<4, 0>> >>
             \o Rep(10, <<D(10, 2), 0>>)
      [] kind = "TS1_NOCOM" ->
             << <<COM, 0>>, <<PAD, 1>>, <<PAD, 1>>, <<32, 0>>, <<2, 0>>, <<0, 0>> >>
             \o Rep(10, <<D(10, 2), 0>>)

\* the classification the physical layer gives a set
KindType(kind) ==
    CASE kind = "SKIP" -> SKIP
      [] kind = "IDLE" -> IDLE
      [] kind = "FTS" -> FTS
      [] kind = "TS1" -> TS1
      [] kind = "TS2" -> TS2
      [] kind = "COMPLIANCE" -> COMPLIANCE
      [] kind = "MODIFIED_COMPLIANCE" -> MODIFIED_COMPLIANCE
      [] OTHER -> DATA

\* free data symbols: D-type bytes 1..7 that number the symbols sent
FreeSym(g) == <<1 + (g.cnt % 7), 0>>

OrderedKinds == {"SKIP", "IDLE", "FTS", "TS1", "TS2", "COMPLIANCE", "MODIFIED_COMPLIANCE"}

\* the choices for the next symbol:
\* <<symbol, generator state, kind started, symbol belongs to an ordered set>>
GenChoices(g) ==
    IF g.q # <<>>
    THEN { <<Head(g.q), [g EXCEPT !.q = Tail(@), !.cnt = @ + 1], "none", g.os>> }
    ELSE { <<FreeSym(g), [g EXCEPT !.free = @ + 1, !.cnt = @ + 1], "none", FALSE>> }
         \cup { <<Head(SetSyms(k)),
                  [q |-> Tail(SetSyms(k)), n |-> g.n + 1, free |-> 0, cnt |-> g.cnt + 1,
                   os |-> k \in OrderedKinds],
                  k, k \in OrderedKinds>> :
                k \in { kk \in Kinds : g.n < MaxSets /\ g.free <= MaxGap } }

SinkOf(first, second) ==
    [data |-> first[1] + (256 * second[1]), ctrl |-> first[2] + (2 * second[2])]

\* ages the sets sent so far by one cycle and adds those started in this one
LogSets(log, k1, k2) ==
    [i \in 1..Len(log) |-> [log[i] EXCEPT !.age = @ + 1]]
    \o (IF k1 # "none" THEN <<[kind |-> k1, lane |-> 0, age |-> 1, seen |-> FALSE]>> ELSE <<>>)
    \o (IF k2 # "none" THEN <<[kind |-> k2, lane |-> 1, age |-> 1, seen |-> FALSE]>> ELSE <<>>)

\* notes for each set whether the source has shown its classification yet
MarkSeen(log, o, t) ==
    [i \in 1..Len(log) |->
        [log[i] EXCEPT !.seen = @ \/ (o # 0 /\ t = KindType(log[i].kind))]]

HistDepth == 11

PushHist(h, x) == SubSeq(<<x>> \o h, 1, IF Len(h) < HistDepth THEN Len(h) + 1 ELSE HistDepth)

DetReset ==
    /\ word = [i \in 0..9 |-> 0]
    /\ osets_pattern = 0
    /\ det_osets = 0
    /\ det_type = DATA
    /\ sink_hist = <<>>
    /\ os_log = <<>>
    /\ ev = [type |-> DATA, first |-> 0, lanes |-> 0, cycles |-> 0, load |-> 0]
    /\ cycle = 0
    /\ gen = [q |-> <<>>, n |-> 0, free |-> 0, cnt |-> 0, os |-> FALSE]

DetClock ==
    /\ cycle < MaxCycles
    /\ \E c1 \in GenChoices(gen) :
         \E c2 \in GenChoices(c1[2]) :
            /\ DetEdge(SinkOf(c1[1], c2[1]))
            /\ sink_hist' = PushHist(sink_hist, SinkOf(c1[1], c2[1]))
            /\ os_log' = MarkSeen(LogSets(os_log, c1[3], c2[3]), det_osets', det_type')
            /\ gen' = c2[2]
            /\ cycle' = cycle + 1

(***************************************************************************)
(* The DetectOrderedSets of descrambler.py.  Its sync block is the text of  *)
(* the one in detect_ordered_sets.py; the comb block takes source.valid    *)
(* from sink.valid and drives source.data / source.ctrl with 0 while       *)
(* sink.valid is low.                                                      *)
(***************************************************************************)
\* cycles of one run of the two detectors side by side
MaxDupCycles == 12

dup_source_valid == det_sink_valid

dup_source_data == IF det_sink_valid THEN DATA_WORD(dd_word[9]) ELSE 0

dup_source_ctrl == IF det_sink_valid THEN Slice(dd_word[9], 16, 18) ELSE 0

DupReset ==
    /\ dd_word = [i \in 0..9 |-> 0]
    /\ dd_osets_pattern = 0
    /\ dd_osets = 0
    /\ dd_type = DATA
    /\ det_sink_valid = TRUE

\* one clock edge of the copy's sync block for the sink word snk
DupEdge(snk) ==
    LET r == Registered(dd_word, dd_osets_pattern, dd_type)
    IN  /\ dd_osets' = r.o
        /\ dd_type' = r.t
        /\ dd_osets_pattern' = r.p
        /\ dd_word' = ShiftWindow(dd_word, snk)

\* one clock edge of both detectors on the same sink word; sink.valid of the
\* cycle that follows is high or low
DupClock ==
    /\ cycle < MaxDupCycles
    /\ \E c1 \in GenChoices(gen) :
         \E c2 \in GenChoices(c1[2]) :
            /\ DetEdge(SinkOf(c1[1], c2[1]))
            /\ DupEdge(SinkOf(c1[1], c2[1]))
            /\ sink_hist' = PushHist(sink_hist, SinkOf(c1[1], c2[1]))
            /\ os_log' = MarkSeen(LogSets(os_log, c1[3], c2[3]), det_osets', det_type')
            /\ gen' = c2[2]
            /\ cycle' = cycle + 1
    /\ det_sink_valid' \in BOOLEAN

(***************************************************************************)
(* Recorder (pcie_analyzer/record.py): an FSM that moves words from the    *)
(* capture FIFO to the DMA writer.  One action is one sys clock edge; the  *)
(* host writes the base and length registers while the FSM is idle.        *)
(***************************************************************************)
\* largest length register value the host writes, and the number of writes
\* of one run that are followed
MaxRecLength == 3

MaxRecWrites == 5

\* A 32-bit register is the record [hi, lo] of its two 16-bit halves.
Half == 256 * 256

U32(n) == [hi |-> n \div Half, lo |-> n % Half]

Inc32(v) == IF v.lo = Half - 1 THEN [hi |-> (v.hi + 1) % Half, lo |-> 0]
            ELSE [hi |-> v.hi, lo |-> v.lo + 1]

Dec32(v) == IF v.lo = 0 THEN [hi |-> (v.hi + Half - 1) % Half, lo |-> Half - 1]
            ELSE [hi |-> v.hi, lo |-> v.lo - 1]

Add32(a, b) == [hi |-> (a.hi + b.hi + ((a.lo + b.lo) \div Half)) % Half,
                lo |-> (a.lo + b.lo) % Half]

RecBases == {U32(0), U32(4096), U32(65535)}

RecReset ==
    /\ rec_state = "IDLE"
    /\ rec_count = U32(0)
    /\ rec_base = U32(0)
    /\ rec_length = U32(0)
    /\ rec_log = <<>>
    /\ rec_hs = [state |-> "IDLE", start |-> FALSE, wrote |-> FALSE, took |-> FALSE]

\* self.done.status: driven with 1 in IDLE, not driven in RUN
done_status == IF rec_state = "IDLE" THEN 1 ELSE 0

\* dma_writer.sink.valid and cdc.source.ready: connected in RUN only
dma_sink_valid(cdc_valid) == rec_state = "RUN" /\ cdc_valid

cdc_source_ready(dma_ready) == rec_state = "RUN" /\ dma_ready

\* dma_writer.sink.address = base.storage + count
dma_sink_address == Add32(rec_base, rec_count)

RecLast_never == FALSE

\* count == (self.length.storage - 1), on 32 bits
RecLast == rec_count = Dec32(rec_length)

\* the host writes the base and length registers; the FSM is idle
RecHostWrite ==
    /\ rec_state = "IDLE"
    /\ \E b \in RecBases, l \in 0..MaxRecLength :
         /\ rec_base' = b
         /\ rec_length' = U32(l)
    /\ rec_log' = <<>>
    /\ rec_hs' = [state |-> "IDLE", start |-> FALSE, wrote |-> FALSE, took |-> FALSE]
    /\ UNCHANGED <<rec_state, rec_count>>

\* one clock edge of the FSM for one value of start.re, cdc.source.valid and
\* dma_writer.sink.ready
RecEdge(start_re, cdc_valid, dma_ready) ==
    LET wr == dma_sink_valid(cdc_valid) /\ dma_ready
        tk == cdc_valid /\ cdc_source_ready(dma_ready)
    IN  /\ wr => Len(rec_log) < MaxRecWrites
        /\ rec_state' = IF rec_state = "IDLE"
                         THEN (IF start_re THEN "RUN" ELSE "IDLE")
                         ELSE (IF wr /\ RecLast THEN "IDLE" ELSE "RUN")
        /\ rec_count' = IF rec_state = "IDLE"
                         THEN (IF start_re THEN U32(0) ELSE rec_count)
                         ELSE (IF wr THEN Inc32(rec_count) ELSE rec_count)
        /\ rec_log' = IF rec_state = "IDLE" /\ start_re THEN <<>>
                       ELSE IF wr THEN Append(rec_log, dma_sink_address)
                       ELSE rec_log
        /\ rec_hs' = [state |-> rec_state, start |-> start_re, wrote |-> wr, took |-> tk]
        /\ UNCHANGED <<rec_base, rec_length>>

RecClock ==
    \E start_re \in BOOLEAN, cdc_valid \in BOOLEAN, dma_ready \in BOOLEAN :
        RecEdge(start_re, cdc_valid, dma_ready)

\* A run with the length register 0 that has gone on for a long time: count
\* is a few transfers before the end of its 32 bits.
RecMidRun ==
    /\ rec_state = "RUN"
    /\ rec_length = U32(0)
    /\ rec_base \in RecBases
    /\ rec_count \in { [hi |-> Half - 1, lo |-> Half - 1 - k] : k \in 0..MaxRecLength }
    /\ rec_log = <<>>
    /\ rec_hs = [state |-> "RUN", start |-> FALSE, wrote |-> FALSE, took |-> FALSE]

(***************************************************************************)
(* GTPRXBIST (pcie_analyzer/bist.py): counts the received words that are   *)
(* not the word received before plus one.                                  *)
(***************************************************************************)
\* cycles of one run
MaxBistCycles == 5

\* the 16-bit words received
BistData == {0, 1, 2, Half - 1}

BistReset ==
    /\ bist_errors = U32(0)
    /\ bist_data_last = 0
    /\ bist_hs = [enable |-> FALSE, data |-> 0]
    /\ bist_ref = 0
    /\ bist_cycle = 0

\* data_next = data_last + 1, on 16 bits
data_next == (bist_data_last + 1) % Half

\* one clock edge of the sync block for one value of enable and of
\* gtp.source.data; of the two assignments to errors the last one wins
BistEdge(enable, data) ==
    /\ bist_errors' = IF data_next # data THEN Inc32(bist_errors)
                       ELSE IF ~enable THEN U32(0)
                       ELSE bist_errors
    /\ bist_data_last' = data
    /\ bist_hs' = [enable |-> enable, data |-> data]
    /\ bist_ref' = IF ~enable THEN 0
                    ELSE IF data # (bist_data_last + 1) % Half THEN bist_ref + 1
                    ELSE bist_ref
    /\ bist_cycle' = bist_cycle + 1

BistClock ==
    /\ bist_cycle < MaxBistCycles
    /\ \E enable \in BOOLEAN, data \in BistData : BistEdge(enable, data)

(***************************************************************************)
(* lfsr: the two cascaded tap functions of X^16 + X^5 + X^4 + X^3 + 1      *)
(***************************************************************************)
\* next1[i] is the XOR of the value bits Taps[i + 1]
Taps_off == << {8}, {9}, {10}, {11, 8}, {12, 9, 8}, {13, 10, 9, 8}, {14, 11, 10, 9},
               {15, 12, 11, 10}, {0, 13, 12, 11}, {1, 14, 13, 12}, {2, 15, 14, 13},
               {3, 15, 14}, {4}, {5}, {6}, {7} >>

Taps == << {8}, {9}, {10}, {11, 8}, {12, 9, 8}, {13, 10, 9, 8}, {14, 11, 10, 9},
           {15, 12, 11, 10}, {0, 13, 12, 11}, {1, 14, 13, 12}, {2, 15, 14, 13},
           {3, 15, 14}, {4, 15}, {5}, {6}, {7} >>

XorBits(v, S) == Cardinality({ j \in S : Bit(v, j) = 1 }) % 2

RECURSIVE FromBits(_, _, _)
\* the value whose bits n..hi-1 are f[n], ..., f[hi-1]
FromBits(f, n, hi) == IF n >= hi THEN 0 ELSE (f[n] * Pow2(n)) + FromBits(f, n + 1, hi)

next1_shift(v) == (v * 256) % 65536

next1(v) == FromBits([i \in 0..15 |-> XorBits(v, Taps[i + 1])], 0, 16)

\* next2[i] is the XOR of the next1 bits Taps2[i + 1]
Taps2_off == << {8}, {9}, {10}, {11, 8}, {12, 9, 8}, {13, 10, 9, 8}, {14, 11, 10, 9},
                {15, 12, 11, 10}, {0, 13, 12, 11}, {1, 14, 13, 12}, {2, 15, 14, 13},
                {3, 15}, {4, 15}, {5}, {6}, {7} >>

Taps2 == << {8}, {9}, {10}, {11, 8}, {12, 9, 8}, {13, 10, 9, 8}, {14, 11, 10, 9},
            {15, 12, 11, 10}, {0, 13, 12, 11}, {1, 14, 13, 12}, {2, 15, 14, 13},
            {3, 15, 14}, {4, 15}, {5}, {6}, {7} >>

next2_one(v) == next1(v)

next2(v) ==
    LET n1 == next1(v)
    IN  FromBits([i \in 0..15 |-> XorBits(n1, Taps2[i + 1])], 0, 16)

\* The bit-serial reference of the scrambler LFSR, X^16 + X^5 + X^4 + X^3 + 1:
\* one bit time shifts the register up by one, feeds bit 15 back into bit 0
\* and XORs it into bits 3, 4 and 5.
BitTime(v) ==
    LET fb == Bit(v, 15)
        sh == (2 * v) % 65536
    IN  IF fb = 0 THEN sh
        ELSE sh + 1 + (8 * (1 - (2 * Bit(sh, 3)))) + (16 * (1 - (2 * Bit(sh, 4))))
                    + (32 * (1 - (2 * Bit(sh, 5))))

\* eight bit times
ByteTime(v) == BitTime(BitTime(BitTime(BitTime(BitTime(BitTime(BitTime(BitTime(v))))))))

\* the scrambling byte of a register: its high byte, bit-reversed
KeyByte(v) == FromBits([i \in 0..7 |-> Bit(v, 15 - i)], 0, 8)

(***************************************************************************)
(* Descrambler                                                             *)
(* A sink / source word is a record [data, ctrl, osets, type].             *)
(***************************************************************************)
LFSR_VALUE_NEXT_AFTER_RESET == 59415

LFSR_VALUE_RESET == 65535

\* the bitwise XOR of two bytes
ByteXor(a, b) == FromBits([i \in 0..7 |-> (Bit(a, i) + Bit(b, i)) % 2], 0, 8)

\* bit i of the byte XORed with bit 15-i of the LFSR value, i in 0..7
XorKey(b, v) == FromBits([i \in 0..7 |-> (Bit(b, i) + Bit(v, 15 - i)) % 2], 0, 8)

\* the upper and lower byte the ctrl branches assign to source.data
CtrlUpper(snk, v) ==
    IF snk.ctrl \in {0, 1} THEN XorKey(UPPER_BYTE(snk.data), v) ELSE UPPER_BYTE(snk.data)

CtrlLower(snk, v) ==
    CASE snk.ctrl = 0 -> XorKey(LOWER_BYTE(snk.data), next1(v))
      [] snk.ctrl = 1 -> LOWER_BYTE(snk.data)
      [] snk.ctrl = 2 -> IF UPPER_BYTE(snk.data) = COM
                         THEN ByteXor(LOWER_BYTE(snk.data), 255)
                         ELSE XorKey(LOWER_BYTE(snk.data), v)
      [] snk.ctrl = 3 -> LOWER_BYTE(snk.data)

LfsrLowerK_skip(lo, v) == IF lo = COM THEN LFSR_VALUE_RESET ELSE next2(v)

\* lfsr.value after a word whose lower byte only is a K symbol (ctrl = 0b01)
LfsrLowerK(lo, v) ==
    IF lo = COM THEN LFSR_VALUE_RESET
    ELSE IF lo = K(28, 0) THEN next1(v) ELSE next2(v)

LfsrUpperK_reset(up, v) ==
    IF up = COM THEN LFSR_VALUE_RESET
    ELSE IF up = K(28, 0) THEN next1(v) ELSE next2(v)

\* lfsr.value after a word whose upper byte only is a K symbol (ctrl = 0b10)
LfsrUpperK(up, v) ==
    IF up = COM THEN LFSR_VALUE_NEXT_AFTER_RESET
    ELSE IF up = K(28, 0) THEN next1(v) ELSE next2(v)

LfsrBothK_chain(up, lo, v) ==
    IF up = COM \/ lo = COM THEN LFSR_VALUE_RESET
    ELSE IF up = K(28, 0) \/ lo = K(28, 0) THEN next1(v) ELSE next2(v)

\* lfsr.value after a word of two K symbols (ctrl = 0b11); no statement
\* assigns it when both are K28.0
LfsrBothK(up, lo, v) ==
    IF up = COM
    THEN (IF lo = COM \/ lo = K(28, 0) THEN LFSR_VALUE_RESET
          ELSE LFSR_VALUE_NEXT_AFTER_RESET)
    ELSE IF up = K(28, 0)
    THEN (IF lo = COM THEN LFSR_VALUE_RESET
          ELSE IF lo # K(28, 0) THEN next1(v) ELSE v)
    ELSE (IF lo = COM THEN LFSR_VALUE_RESET
          ELSE IF lo = K(28, 0) THEN next1(v) ELSE next2(v))

LfsrNext_osets(snk, v) ==
    IF snk.osets # 0 THEN v
    ELSE CASE snk.ctrl = 0 -> next2(v)
           [] snk.ctrl = 1 -> LfsrLowerK(LOWER_BYTE(snk.data), v)
           [] snk.ctrl = 2 -> LfsrUpperK(UPPER_BYTE(snk.data), v)
           [] snk.ctrl = 3 -> LfsrBothK(UPPER_BYTE(snk.data), LOWER_BYTE(snk.data), v)

\* the value the ctrl branches assign to lfsr.value
LfsrNext(snk, v) ==
    CASE snk.ctrl = 0 -> next2(v)
      [] snk.ctrl = 1 -> LfsrLowerK(LOWER_BYTE(snk.data), v)
      [] snk.ctrl = 2 -> LfsrUpperK(UPPER_BYTE(snk.data), v)
      [] snk.ctrl = 3 -> LfsrBothK(UPPER_BYTE(snk.data), LOWER_BYTE(snk.data), v)

\* the final override: a lane whose osets bit is set takes the received byte
OsetsLower_lane(snk, b) == IF Bit(snk.osets, 1) = 1 THEN LOWER_BYTE(snk.data) ELSE b

OsetsLower(snk, b) == IF Bit(snk.osets, 0) = 1 THEN LOWER_BYTE(snk.data) ELSE b

OsetsUpper(snk, b) == IF Bit(snk.osets, 1) = 1 THEN UPPER_BYTE(snk.data) ELSE b

DescEdge_late(snk) ==
    /\ desc_type' = desc_in.type
    /\ desc_ctrl' = desc_in.ctrl
    /\ desc_osets' = desc_in.osets
    /\ desc_data' = OsetsLower(snk, CtrlLower(snk, lfsr_value))
                    + (256 * OsetsUpper(snk, CtrlUpper(snk, lfsr_value)))
    /\ lfsr_value' = LfsrNext(snk, lfsr_value)
    /\ UNCHANGED <<desc_source_valid, desc_sink_ready>>
    /\ desc_in' = snk
    /\ lfsr_prev' = lfsr_value
    /\ dcycle' = dcycle + 1
    /\ zrun' = zrun

\* one clock edge of the sync block for the sink word snk
DescEdge(snk) ==
    /\ desc_type' = snk.type
    /\ desc_ctrl' = snk.ctrl
    /\ desc_osets' = snk.osets
    /\ desc_data' = OsetsLower(snk, CtrlLower(snk, lfsr_value))
                    + (256 * OsetsUpper(snk, CtrlUpper(snk, lfsr_value)))
    /\ lfsr_value' = LfsrNext(snk, lfsr_value)
    \* the handshake statements are the operand of a comparison, "self.comb ==
    \* [...]", whose result is dropped: nothing drives the two signals
    /\ UNCHANGED <<desc_source_valid, desc_sink_ready>>
    /\ desc_in' = snk
    /\ lfsr_prev' = lfsr_value
    /\ dcycle' = dcycle + 1
    /\ zrun' = IF zrun.n >= 0 /\ snk.data = 0 /\ snk.ctrl = 0 /\ snk.osets = 0
               THEN [n |-> zrun.n + 1,
                     ref |-> IF zrun.n = 0 THEN LFSR_VALUE_RESET
                             ELSE ByteTime(ByteTime(zrun.ref))]
               ELSE [n |-> -1, ref |-> 0]

DescReset ==
    /\ lfsr_value = LFSR_VALUE_RESET
    /\ desc_data = 0
    /\ desc_ctrl = 0
    /\ desc_osets = 0
    /\ desc_type = DATA
    /\ desc_source_valid = FALSE
    /\ desc_sink_ready = FALSE
    /\ desc_in = [data |-> 0, ctrl |-> 0, osets |-> 0, type |-> DATA]
    /\ lfsr_prev = LFSR_VALUE_RESET
    /\ dcycle = 0
    /\ zrun = [n |-> 0, ref |-> 0]

\* free input: each lane carries one of four bytes, with any ctrl and osets,
\* the type following the mask
DescBytes == {COM, K(28, 0), 0, 165}

DescSinkWords ==
    { [data |-> lo + (256 * up), ctrl |-> c, osets |-> o,
       type |-> IF o = 0 THEN DATA ELSE SKIP] :
        lo \in DescBytes, up \in DescBytes, c \in 0..3, o \in 0..3 }

DescClock ==
    /\ dcycle < MaxDescCycles
    /\ \E snk \in DescSinkWords : DescEdge(snk)

\* The lfsr module on its own: value is a 16-bit register of any content and
\* one edge loads it with next1 or with next2; dcycle counts the byte times
\* taken, 1 or 2.
LfsrValues == 0..65535

LfsrReset ==
    /\ lfsr_value \in LfsrValues
    /\ desc_data = 0
    /\ desc_ctrl = 0
    /\ desc_osets = 0
    /\ desc_type = DATA
    /\ desc_source_valid = FALSE
    /\ desc_sink_ready = FALSE
    /\ desc_in = [data |-> 0, ctrl |-> 0, osets |-> 0, type |-> DATA]
    /\ lfsr_prev = lfsr_value
    /\ dcycle = 0
    /\ zrun = [n |-> -1, ref |-> 0]

LfsrLoad1 ==
    /\ dcycle = 0
    /\ lfsr_value' = next1(lfsr_value)
    /\ lfsr_prev' = lfsr_value
    /\ dcycle' = 1
    /\ UNCHANGED <<desc_data, desc_ctrl, desc_osets, desc_type, desc_source_valid,
                   desc_sink_ready, desc_in, zrun>>

LfsrLoad2 ==
    /\ dcycle = 0
    /\ lfsr_value' = next2(lfsr_value)
    /\ lfsr_prev' = lfsr_value
    /\ dcycle' = 2
    /\ UNCHANGED <<desc_data, desc_ctrl, desc_osets, desc_type, desc_source_valid,
                   desc_sink_ready, desc_in, zrun>>

\* The lfsr.value register alone, over runs of any length.  The value a
\* clock edge assigns to it is a function of the register and of the sink
\* word; no other register of the Descrambler is read for it.  The words
\* have each K-type lane COM, K28.0 or another byte, and D-type lanes 0.
LockBytes == {COM, K(28, 0), 0}

LockWords ==
    { [data |-> (IF Bit(c, 0) = 1 THEN lo ELSE 0) + (256 * (IF Bit(c, 1) = 1 THEN up ELSE 0)),
       ctrl |-> c, osets |-> 0, type |-> DATA] :
        lo \in LockBytes, up \in LockBytes, c \in 0..3 }

LockClock ==
    /\ \E snk \in LockWords : lfsr_value' = LfsrNext(snk, lfsr_value)
    /\ UNCHANGED <<desc_data, desc_ctrl, desc_osets, desc_type, desc_source_valid,
                   desc_sink_ready, desc_in, lfsr_prev, dcycle, zrun>>

\* A run started in the middle of a stream: the register holds any value a
\* stream of data words can have left in it.
LfsrStates == {LFSR_VALUE_RESET, LFSR_VALUE_NEXT_AFTER_RESET, 1, 32768, 43690, 4660}

DescAnyReset ==
    /\ lfsr_value \in LfsrStates
    /\ desc_data = 0
    /\ desc_ctrl = 0
    /\ desc_osets = 0
    /\ desc_type = DATA
    /\ desc_source_valid = FALSE
    /\ desc_sink_ready = FALSE
    /\ desc_in = [data |-> 0, ctrl |-> 0, osets |-> 0, type |-> DATA]
    /\ lfsr_prev = lfsr_value
    /\ dcycle = 0
    /\ zrun = [n |-> -1, ref |-> 0]

DescAnyClock ==
    /\ dcycle < MaxAnyCycles
    /\ \E snk \in DescSinkWords : DescEdge(snk)

(***************************************************************************)
(* The round trip: the symbol source, the forward scrambler, then          *)
(* DetectOrderedSets feeding Descrambler as in the test bench TB.          *)
(***************************************************************************)
\* the byte-serial forward scrambler: <<symbol sent, next LFSR state>>
TxScramble(sym, inset, v) ==
    IF sym[2] = 1
    THEN (IF sym[1] = COM THEN <<sym, LFSR_VALUE_RESET>>
          ELSE IF sym[1] = K(28, 0) THEN <<sym, v>>
          ELSE <<sym, next1(v)>>)
    ELSE <<(IF inset THEN sym ELSE <<XorKey(sym[1], v), 0>>), next1(v)>>

HasCom(x) ==
    \/ (x.data % 256 = COM /\ Bit(x.ctrl, 0) = 1)
    \/ (x.data \div 256 = COM /\ Bit(x.ctrl, 1) = 1)

\* an unscrambled word is in sync when a COM was sent in a word before it
InSync(h) == h # <<>> /\ (h[1].sync \/ HasCom(h[1]))

\* descrambler.sink = detect.source
DetToDesc ==
    [data |-> det_source_data, ctrl |-> det_source_ctrl,
     osets |-> det_osets, type |-> det_type]

PipeClock ==
    /\ cycle < MaxCycles
    /\ \E c1 \in GenChoices(gen) :
         \E c2 \in GenChoices(c1[2]) :
            LET t1 == TxScramble(c1[1], c1[4], tx_lfsr)
                t2 == TxScramble(c2[1], c2[4], t1[2])
                o  == SinkOf(c1[1], c2[1])
            IN  /\ DetEdge(SinkOf(t1[1], t2[1]))
                /\ DescEdge(DetToDesc)
                /\ sink_hist' = PushHist(sink_hist, SinkOf(t1[1], t2[1]))
                /\ os_log' = MarkSeen(LogSets(os_log, c1[3], c2[3]), det_osets', det_type')
                /\ gen' = c2[2]
                /\ cycle' = cycle + 1
                /\ tx_lfsr' = t2[2]
                /\ orig_hist' = PushHist(orig_hist,
                       [data |-> o.data, ctrl |-> o.ctrl, sync |-> InSync(orig_hist)])

(***************************************************************************)
(* Specifications                                                          *)
(***************************************************************************)
TxReset ==
    /\ tx_lfsr = LFSR_VALUE_RESET
    /\ orig_hist = <<>>

Init == SkpReset /\ DetReset /\ DescReset /\ TxReset /\ DupReset /\ RecReset /\ BistReset

SkpNext == SkpClock /\ UNCHANGED <<detvars, descvars, txvars, dupvars, recvars, bistvars>>

SpecSkp == Init /\ [][SkpNext]_vars

\* a clock edge at which the downstream takes the word the source offers
SkpTransfer ==
    /\ source_valid
    /\ \E sink_valid \in BOOLEAN :
         \E w \in (IF sink_valid THEN SinkWords(words_in) ELSE {SinkWord(words_in, 0)}) :
            /\ sink_valid => words_in < MaxWords
            /\ SkpEdge(sink_valid, w, TRUE)
    /\ UNCHANGED <<detvars, descvars, txvars, dupvars, recvars, bistvars>>

\* the downstream is ready again and again: an offered word is eventually taken
SpecSkpFair == Init /\ [][SkpNext]_vars /\ WF_vars(SkpTransfer)

\* a clock edge of StallClock at which the downstream takes the word offered
StallTransfer ==
    /\ source_valid
    /\ \E sink_valid \in BOOLEAN :
         \E w \in (IF sink_valid THEN StallWords(words_in) ELSE {SinkWord(words_in, 0)}) :
            /\ sink_valid => words_in < MaxStallWords
            /\ SkpEdge(sink_valid, w, TRUE)
    /\ UNCHANGED <<detvars, descvars, txvars, dupvars, recvars, bistvars>>

StallNext == StallClock /\ UNCHANGED <<detvars, descvars, txvars, dupvars, recvars, bistvars>>

\* the downstream is ready again and again: an offered word is eventually taken
SpecStall == Init /\ [][StallNext]_vars /\ WF_vars(StallTransfer)

FragNext == FragClock /\ UNCHANGED <<detvars, descvars, txvars, dupvars, recvars, bistvars>>

SpecFrag == Init /\ [][FragNext]_vars

ReadyNext == ReadyClock /\ UNCHANGED <<detvars, descvars, txvars, dupvars, recvars, bistvars>>

SpecReady == Init /\ [][ReadyNext]_vars

BurstNext == (BurstWord \/ BurstFlush) /\ UNCHANGED <<detvars, descvars, txvars, dupvars, recvars, bistvars>>

SpecBurst == Init /\ [][BurstNext]_vars

DetNext == DetClock /\ UNCHANGED <<skpvars, descvars, txvars, dupvars, recvars, bistvars>>

SpecDet == Init /\ [][DetNext]_vars

DescNext == DescClock /\ UNCHANGED <<skpvars, detvars, txvars, dupvars, recvars, bistvars>>

SpecDesc == Init /\ [][DescNext]_vars

InitAny == SkpReset /\ DetReset /\ DescAnyReset /\ TxReset /\ DupReset /\ RecReset /\ BistReset

DescAnyNext == DescAnyClock /\ UNCHANGED <<skpvars, detvars, txvars, dupvars, recvars, bistvars>>

SpecDescAny == InitAny /\ [][DescAnyNext]_vars

InitLfsr == SkpReset /\ DetReset /\ LfsrReset /\ TxReset /\ DupReset /\ RecReset /\ BistReset

LfsrStepNext == (LfsrLoad1 \/ LfsrLoad2) /\ UNCHANGED <<skpvars, detvars, txvars, dupvars, recvars, bistvars>>

SpecLfsr == InitLfsr /\ [][LfsrStepNext]_vars

DupNext == DupClock /\ UNCHANGED <<skpvars, descvars, txvars, recvars, bistvars>>

SpecDup == Init /\ [][DupNext]_vars

RecNext == (RecHostWrite \/ RecClock)
           /\ UNCHANGED <<skpvars, detvars, descvars, txvars, dupvars, bistvars>>

SpecRec == Init /\ [][RecNext]_vars

\* a clock edge in RUN at which the FIFO offers a word and the writer is ready
RecTransfer ==
    /\ rec_state = "RUN"
    /\ \E start_re \in BOOLEAN : RecEdge(start_re, TRUE, TRUE)
    /\ UNCHANGED <<skpvars, detvars, descvars, txvars, dupvars, bistvars>>

InitRec == SkpReset /\ DetReset /\ DescReset /\ TxReset /\ DupReset
           /\ (RecReset \/ RecMidRun) /\ BistReset

\* the FIFO keeps delivering and the writer is ready again and again: in RUN
\* a transfer eventually takes place
SpecRecFair == InitRec /\ [][RecNext]_vars /\ WF_vars(RecTransfer)

BistNext == BistClock /\ UNCHANGED <<skpvars, detvars, descvars, txvars, dupvars, recvars>>

SpecBist == Init /\ [][BistNext]_vars

LockNext == LockClock /\ UNCHANGED <<skpvars, detvars, txvars, dupvars, recvars, bistvars>>

SpecLock == Init /\ [][LockNext]_vars

PipeNext == PipeClock /\ UNCHANGED <<skpvars, dupvars, recvars, bistvars>>

SpecPipe == Init /\ [][PipeNext]_vars

(***************************************************************************)
(* Properties of RXSKPRemover                                              *)
(***************************************************************************)

\* C1: the symbols transferred at the source are, at every point in time, a
\* prefix of the non-filler symbols accepted at the sink, in the same order.
C1_Conservation == IsPrefix(source_log, sink_log)

\* C2: the fill count sr_bytes is at least 0 and at most 7 in every
\* reachable state.
C2_FillBound == sr_bytes >= 0 /\ sr_bytes <= 7

\* C8: sink.ready is asserted exactly when the fill count is <= 7 and
\* source.valid exactly when it is >= 4: on every clock edge a word is
\* accepted iff it is offered at a fill count <= 7, and a word is transferred
\* at the source iff the downstream is ready at a fill count >= 4.
C8_Handshake ==
    /\ sink_ready <=> (sr_bytes <= 7)
    /\ source_valid <=> (sr_bytes >= 4)
    /\ hs.acc <=> (hs.offer /\ hs.fill <= 7)
    /\ hs.out <=> (hs.rdy /\ hs.fill >= 4)

\* a word offered above fill 7 was refused, and one was transferred at fill >= 4
C8_Witness ==
    /\ hs.offer /\ ~hs.acc /\ hs.fill > 7
    /\ Len(source_log) > 0


\* C14: no word transferred at the source contains a lane that is a filler
\* symbol (ctrl bit set and byte K(28,1) = 0x3C), for any input stream and any
\* downstream readiness pattern.
C14_NoFillerOut ==
    \A k \in 1..Len(source_log) : source_log[k] # <<K(28, 1), 1>>

\* a word was transferred whose bytes close the gap left by a removed filler
C14_Witness ==
    /\ Len(sink_log) < 4 * words_in
    /\ Len(source_log) >= 4
    /\ \E k \in 1..3 :
         /\ source_log[k][1] > 0
         /\ source_log[k + 1][1] > source_log[k][1] + 1
         /\ source_log[k] = sink_log[k]
         /\ source_log[k + 1] = sink_log[k + 1]

\* the symbols accepted and not yet transferred, oldest first
Pending == SubSeq(sink_log, Len(source_log) + 1, Len(sink_log))

\* C28: whenever source.valid is asserted, source.data and source.ctrl are
\* the four oldest bytes pending in the buffer, with their control bits, the
\* oldest in the lowest lane, for every reachable fill count.
C28_OldestFour ==
    source_valid =>
        /\ Len(Pending) >= 4
        /\ Symbols(source_data, source_ctrl, 4) = SubSeq(Pending, 1, 4)

\* C29: sink.ready is deasserted exactly in the cycles in which the fill
\* count is above 7; once deasserted it stays so until an output transfer,
\* which brings the fill count to 7 or less, and is asserted in the cycle
\* after it; with a downstream that is ready again and again every stall
\* ends.
C29_Stall ==
    /\ [](sink_ready <=> sr_bytes <= 7)
    /\ [][~sink_ready => (sink_ready' <=> hs'.out)]_vars
    /\ (~sink_ready ~> sink_ready)

\* a stall at a fill count above 8 has just ended with an output transfer
C29_Witness ==
    /\ hs.fill > 8
    /\ hs.out
    /\ ~hs.acc
    /\ sink_ready
    /\ sr_bytes = hs.fill - 4

\* the lanes (1..4) of the word just accepted that are fillers by the rule
\* "ctrl bit set and byte 0x3C", and the k-th of the other lanes from below
FillerOf(w) == { j \in 1..4 : w[2][j] = 1 /\ w[1][j] = 60 }

KeptLane(w, k) ==
    CHOOSE j \in (1..4) \ FillerOf(w) :
        Cardinality({ i \in (1..4) \ FillerOf(w) : i < j }) = k - 1

C13_EventuallyEmitted ==
    \A m \in 1..MaxWords :
        (Len(sink_log) >= 4 * m)
            ~> (Len(source_log) >= 4 * m
                /\ SubSeq(source_log, 1, 4 * m) = SubSeq(sink_log, 1, 4 * m))

\* the burst is over and the source has nothing left to offer
BurstDrained == words_in = BurstWords /\ ~hs.offer /\ ~source_valid

\* C12: with the downstream ready in every cycle, BurstWords consecutive
\* valid words that each carry exactly one filler symbol give an output 25%
\* shorter than the input: all 3 * BurstWords surviving bytes are emitted
\* at the source, in their original order.
C12_AllEmitted ==
    BurstDrained => (Len(sink_log) = 3 * BurstWords /\ source_log = sink_log)

\* C12 as the code has it: the surviving bytes leave in whole words of four,
\* in their original order; after the burst the first 4 * (3 * BurstWords
\* div 4) of them have been emitted and the remainder stays in the register.
C12_WholeWords ==
    /\ Len(sink_log) = 3 * words_in
    /\ IsPrefix(source_log, sink_log)
    /\ Len(source_log) % 4 = 0
    /\ sr_bytes = Len(sink_log) - Len(source_log)
    /\ BurstDrained => /\ Len(source_log) = 4 * ((3 * BurstWords) \div 4)
                       /\ sr_bytes = (3 * BurstWords) % 4

\* the burst is over, whole words were emitted and bytes are left behind
C12_Witness ==
    /\ BurstDrained
    /\ Len(source_log) >= 4
    /\ sr_bytes > 0
    /\ Len(sink_log) = Len(source_log) + sr_bytes

(***************************************************************************)
(* Properties of DetectOrderedSets                                         *)
(* In a state, cycle = c: the registers are those visible in cycle c,      *)
(* sink_hist[k] is the word presented at the sink in cycle c - k, and a    *)
(* set of os_log with age a presented its first symbol in cycle c - a.     *)
(***************************************************************************)
Recognisable == {"SKIP", "IDLE", "FTS", "TS1", "TS2", "COMPLIANCE", "MODIFIED_COMPLIANCE"}

Fillers == {"SKIP", "IDLE", "FTS"}

NoLaterFire(i) == \A j \in (i + 1)..Len(os_log) : os_log[j].age < 10

\* the sequences sent so far hold no K-type COM: packets, and look-alikes of
\* ordered sets whose first byte 0xBC comes without its control flag
ComFree == {"TLP", "SKIP_NOCOM", "TS1_NOCOM"}

NoComSent == \A i \in 1..Len(os_log) : os_log[i].kind \in ComFree

\* no K-type COM was in word8 at a clock edge so far: every sequence that
\* holds one presented it less than 10 cycles ago
NoComSeen == \A i \in 1..Len(os_log) : os_log[i].kind \in ComFree \/ os_log[i].age < 10

\* C15: as long as no K-type COM (byte 0xBC with its control flag set) has
\* reached word8, whatever other symbols did, the mask is 0b00 and the type
\* is DATA in every cycle.
C15_DefaultData == NoComSeen => (det_osets = 0 /\ det_type = DATA /\ osets_pattern = 0)

\* a look-alike of a set went through the whole window without being tagged
C15_Witness ==
    /\ NoComSent
    /\ \E i \in 1..Len(os_log) :
         os_log[i].kind \in {"SKIP_NOCOM", "TS1_NOCOM"} /\ os_log[i].age >= 12
    /\ det_osets = 0
    /\ det_type = DATA

\* the sink word with its two lanes exchanged, each byte with its flag
Exchanged(x) ==
    [data |-> (x.data \div 256) + (256 * (x.data % 256)),
     ctrl |-> (x.ctrl \div 2) + (2 * (x.ctrl % 2))]

DetSource == [data |-> det_source_data, ctrl |-> det_source_ctrl]

\* C5 (as stated): the word presented at the sink in cycle t is the word at
\* the source in cycle t+9.
C5_Latency9 == cycle >= 9 => DetSource = sink_hist[9]

\* C5 (amended): the word presented at the sink in cycle t is at the source
\* in cycle t+10, with its two lanes exchanged, whether or not a pattern is
\* detected.
C5_Latency10 == cycle >= 10 => DetSource = Exchanged(sink_hist[10])

\* a COM word is at the source, tagged, ten cycles after it was presented
C5_Witness ==
    /\ cycle >= 10
    /\ det_osets # 0
    /\ sink_hist[10].data % 256 = COM
    /\ sink_hist[10].data \div 256 # COM

\* the symbol <<byte, flag>> a word carries in a lane
LaneSym(x, l) == <<Slice(x.data, 8 * l, 8 * (l + 1)), Bit(x.ctrl, l)>>

\* C6 (as stated): the source word is an earlier sink word with the same
\* byte in the same lane and the same control flag attached to each lane.
C6_SameLanes ==
    cycle >= 10 => \A l \in {0, 1} : LaneSym(DetSource, l) = LaneSym(sink_hist[10], l)

\* C6 (amended): the source word is an earlier sink word with its lanes
\* exchanged: each lane of the source carries the byte and the control flag
\* of the other lane of the sink word of ten cycles before; before that the
\* source is the reset word.
C6_LanesExchanged ==
    /\ cycle >= 10 =>
         \A l \in {0, 1} : LaneSym(DetSource, l) = LaneSym(sink_hist[10], 1 - l)
    /\ cycle < 10 => DetSource = [data |-> 0, ctrl |-> 0]

\* a word with a K-type and a D-type lane is at the source during a drain
C6_Witness ==
    /\ cycle >= 10
    /\ ev.cycles >= 2
    /\ det_osets # 0
    /\ sink_hist[10].ctrl \in {1, 2}

\* C7 (as stated): the classification of a recognisable set whose COM entered
\* the sink in cycle t has been shown by the source no later than cycle t+9.
C7_DetectBy9 ==
    \A i \in DOMAIN os_log :
        (os_log[i].kind \in Recognisable /\ os_log[i].age = 9) => os_log[i].seen

\* the four symbols of a compliance pattern, two symbols and then two COMs
\* are the eight symbols of a modified compliance pattern
ReadsAsModified(i) ==
    /\ os_log[i].kind = "COMPLIANCE"
    /\ \E j \in (i + 1)..Len(os_log) :
          /\ os_log[j].kind \in {"COM2_TS1", "COM2_SKIP_TS1"}
          /\ (2 * (os_log[i].age - os_log[j].age)) + (os_log[j].lane - os_log[i].lane) = 6

StreamType(i) == IF ReadsAsModified(i) THEN MODIFIED_COMPLIANCE ELSE KindType(os_log[i].kind)

\* C7 (amended): the source shows a non-zero mask and the classification of
\* a recognisable set in cycle t+10, t the cycle in which its COM entered.
C7_DetectAt10 ==
    \A i \in DOMAIN os_log :
        (os_log[i].kind \in Recognisable /\ os_log[i].age = 10) =>
            (det_osets # 0 /\ det_type = StreamType(i))

\* a compliance set whose COM was in the second lane has just been detected
C7_Witness ==
    \E i \in DOMAIN os_log :
        /\ os_log[i].kind = "MODIFIED_COMPLIANCE"
        /\ os_log[i].lane = 1
        /\ os_log[i].age = 10
        /\ det_type = MODIFIED_COMPLIANCE

\* C9 (as stated): a COM followed by three identical fillers is classified
\* SKIP, IDLE or FTS at either alignment, exactly two lanes are tagged after
\* the detection cycle, and one cycle later the mask is 0 and the type DATA.
C9_TwoTrailing ==
    \A i \in DOMAIN os_log :
        os_log[i].kind \in Fillers =>
            /\ os_log[i].age = 10 => det_type = KindType(os_log[i].kind)
            /\ os_log[i].age = 11 => PopCount2(det_osets) = 2
            /\ (os_log[i].age = 12 /\ NoLaterFire(i)) =>
                   (det_osets = 0 /\ det_type = DATA /\ ev.lanes - PopCount2(ev.first) = 2)

\* C9 (amended): the triplet is classified at either alignment; with the COM
\* in the upper byte of word8 the detection cycle tags both lanes and the
\* drain counter tags the two trailing lanes in the one following cycle; with
\* the COM in the lower byte of word8 the detection cycle tags the COM's lane
\* and the drain counter tags the three trailing lanes over the two following
\* cycles (0b11, then 0b10); the mask is 0 and the type DATA after that.
C9_Trailing ==
    \A i \in DOMAIN os_log :
        os_log[i].kind \in Fillers =>
            LET up == os_log[i].lane = 0
                a  == os_log[i].age
                ty == KindType(os_log[i].kind)
            IN  /\ a = 10 => (det_type = ty /\ det_osets = (IF up THEN 3 ELSE 1))
                /\ a = 11 => (det_type = ty /\ det_osets = 3)
                /\ (a = 12 /\ NoLaterFire(i)) =>
                       IF up THEN det_osets = 0 /\ det_type = DATA /\ ev.lanes = 4
                             ELSE det_osets = 2 /\ det_type = ty
                /\ (a = 13 /\ NoLaterFire(i) /\ ~up) =>
                       (det_osets = 0 /\ det_type = DATA /\ ev.lanes = 4)

\* an FTS triplet at the lower alignment is in its second drain cycle
C9_Witness ==
    \E i \in DOMAIN os_log :
        /\ os_log[i].kind = "FTS"
        /\ os_log[i].lane = 1
        /\ os_log[i].age = 12
        /\ det_osets = 2

\* C25: in every reachable state the type differs from DATA exactly when
\* the mask is non-zero, and through all drain cycles of an event the type
\* stays the classification registered in the cycle the pattern fired.
C25_TypeFollowsMask ==
    /\ (det_type # DATA) <=> (det_osets # 0)
    /\ det_osets # 0 => (det_type = ev.type /\ ev.cycles >= 1)

\* the fifth cycle of a TS2 event still shows TS2
C25_Witness ==
    /\ ev.cycles = 5
    /\ ev.type = TS2
    /\ det_type = TS2
    /\ det_osets = 3
    /\ Fired(word) = {}

\* only free data symbols were sent after the i-th sequence
FreeDataAfter(i) == i = Len(os_log)

CompliancePatterns == {"COMPLIANCE", "MODIFIED_COMPLIANCE"}

\* C26: on every COMPLIANCE or MODIFIED_COMPLIANCE detection, at either lane
\* alignment, the number of byte lanes tagged for the event is between 5
\* and 7.
C26_Span5to7 ==
    \A i \in DOMAIN os_log :
        (os_log[i].kind \in CompliancePatterns /\ FreeDataAfter(i)) =>
            /\ os_log[i].age = 10 => det_type = KindType(os_log[i].kind)
            /\ os_log[i].age = 15 =>
                   (det_osets = 0 /\ ev.type = KindType(os_log[i].kind)
                    /\ ev.lanes >= 5 /\ ev.lanes <= 7)

\* C26 as the code has it: the event of a COMPLIANCE tags exactly 4 lanes
\* and that of a MODIFIED_COMPLIANCE exactly 8, at either alignment: both
\* lanes and the 2 or 6 lanes of the drain counter with the COM in the upper
\* byte of word8, the COM's lane and the 3 or 7 lanes of the drain counter
\* with the COM in the lower byte.
C26_Span4or8 ==
    \A i \in DOMAIN os_log :
        (os_log[i].kind \in CompliancePatterns /\ FreeDataAfter(i)) =>
            LET a   == os_log[i].age
                up  == os_log[i].lane = 0
                ty  == KindType(os_log[i].kind)
                n   == IF os_log[i].kind = "COMPLIANCE" THEN 4 ELSE 8
            IN  /\ a = 10 => (det_type = ty /\ det_osets = (IF up THEN 3 ELSE 1))
                /\ a = 15 =>
                       /\ det_osets = 0
                       /\ ev.type = ty
                       /\ ev.lanes = n
                       /\ ev.cycles = (IF up THEN n \div 2 ELSE (n \div 2) + 1)

\* the event of a MODIFIED_COMPLIANCE at the lower alignment has ended
C26_Witness ==
    \E i \in DOMAIN os_log :
        /\ os_log[i].kind = "MODIFIED_COMPLIANCE"
        /\ os_log[i].lane = 1
        /\ os_log[i].age = 15
        /\ ev.type = MODIFIED_COMPLIANCE
        /\ ev.lanes = 8
        /\ det_osets = 0

\* C27: SKIP / IDLE / FTS is registered only if the three characters after
\* the K-type COM are K-type fillers of one subtype: a COM followed by three
\* D-type bytes of the same 8-bit value (here 0x1C) stays DATA with mask 0.
C27_FillersAreK ==
    \A i \in DOMAIN os_log :
        (os_log[i].kind = "SKIP_D" /\ FreeDataAfter(i) /\ os_log[i].age \in 10..13) =>
            (det_osets = 0 /\ det_type = DATA)

\* the rules of the upper-lane and of the lower-lane branch that match
UpperFired == { i \in Fired(word) : i <= 7 }

LowerFired == { i \in Fired(word) : i >= 8 }

\* C23: in no reachable state do a pattern of the upper-lane branch (COM in
\* the upper byte of word8) and a pattern of the lower-lane branch (COM in
\* the lower byte of word8) both match in the same cycle.
C23_Exclusive == ~(UpperFired # {} /\ LowerFired # {})

\* C23 as the code has it: the triplet and compliance patterns of the upper
\* branch test the lower byte of word8 and never match together with a
\* pattern of the lower branch; the TS1 / TS2 pattern of the upper branch
\* does not, and matches together with one when word8 is COM, COM.
C23_ExclusiveButTraining ==
    (UpperFired # {} /\ LowerFired # {}) =>
        /\ UpperFired \subseteq {4, 5}
        /\ DATA_WORD(word[8]) = TWO(COM)
        /\ UPPER_K(word[8]) = 1
        /\ LOWER_K(word[8]) = 1

\* TS1 of the upper branch and SKIP of the lower branch match together
C23_Witness == 4 \in UpperFired /\ 8 \in LowerFired

\* the values a rule assigns are the ones registered at this clock edge
RegisteredBy(i) ==
    /\ det_osets' = Rules(word)[i].o
    /\ det_type' = Rules(word)[i].t
    /\ osets_pattern' = Rules(word)[i].p

\* C24: whenever an upper-lane pattern and a lower-lane pattern both match
\* in the same cycle, the mask, type and drain counter registered for that
\* cycle are those of the upper-lane match.
C24_UpperWins ==
    [][(UpperFired # {} /\ LowerFired # {}) => RegisteredBy(Max(UpperFired))]_vars

\* C24 as the code has it: the lower-lane branch comes later in the sync
\* block, and its match is the one registered.
C24_LowerWins ==
    [][(UpperFired # {} /\ LowerFired # {}) => RegisteredBy(Max(LowerFired))]_vars

\* SKIP of the lower branch was registered over TS1 of the upper branch
C24_Witness ==
    /\ \E i \in DOMAIN os_log : os_log[i].kind = "COM2_SKIP_TS1" /\ os_log[i].age = 10
    /\ det_type = SKIP
    /\ det_osets = 1
    /\ osets_pattern = 57344

\* the number of leading 1-bits of a 16-bit value
LeadingOnes(p) == Cardinality({ k \in 1..16 : \A j \in 1..k : Bit(p, 16 - j) = 1 })

\* a clock edge at which no pattern fires follows the drain rule
DrainStep ==
    Fired(word) = {} =>
        IF Slice(osets_pattern, 14, 16) # 0
        THEN /\ det_osets' = Slice(osets_pattern, 14, 16)
             /\ \A b \in 0..15 :
                  Bit(osets_pattern', b) = IF b < 2 THEN 0 ELSE Bit(osets_pattern, b - 2)
        ELSE det_osets' = 0 /\ det_type' = DATA

\* once the mask is back to 0, the drain cycles of the last event were
\* ceil(n / 2) and tagged n lanes, n the leading 1-bits of the counter loaded
DrainTotal ==
    (ev.cycles >= 1 /\ det_osets = 0) =>
        /\ ev.lanes - PopCount2(ev.first) = LeadingOnes(ev.load)
        /\ ev.cycles - 1 = (LeadingOnes(ev.load) + 1) \div 2
        /\ Slice(osets_pattern, 14, 16) = 0

\* C22: in every cycle in which no pattern fires, if the top two bits of the
\* drain counter are non-zero the next mask is those two bits and the counter
\* moves up by two bit positions, zero-filled; otherwise the next mask is 0b00
\* and the type DATA.  Hence a counter loaded with n leading 1-bits gives
\* ceil(n / 2) drain cycles whose masks hold n set bits, and then mask 0b00.
C22_DrainRule == [][DrainStep /\ DrainTotal']_vars

\* a counter loaded with three leading 1-bits has drained in two cycles
C22_Witness ==
    /\ ev.load = 57344
    /\ ev.cycles = 3
    /\ ev.lanes - PopCount2(ev.first) = 3
    /\ det_osets = 0
    /\ osets_pattern = 0

TrainingSets == {"TS1", "TS2"}

\* C10 (as stated): a COM followed by the five identifier pairs is classified
\* TS1 / TS2 at either alignment and the mask of the event covers exactly 14
\* byte lanes.
C10_Mask14 ==
    \A i \in DOMAIN os_log :
        os_log[i].kind \in TrainingSets =>
            /\ os_log[i].age = 10 => det_type = KindType(os_log[i].kind)
            /\ (os_log[i].age = 18 /\ NoLaterFire(i)) =>
                   (det_osets = 0 /\ ev.type = KindType(os_log[i].kind) /\ ev.lanes = 14)

\* C10 (amended): the event is classified TS1 / TS2 at either alignment and
\* its mask covers exactly 16 byte lanes: both lanes in the detection cycle
\* and the 14 lanes of the drain counter in the seven cycles that follow.
C10_Mask16 ==
    \A i \in DOMAIN os_log :
        os_log[i].kind \in TrainingSets =>
            LET a  == os_log[i].age
                ty == KindType(os_log[i].kind)
            IN  /\ a = 10 => (det_type = ty /\ det_osets = 3 /\ ev.lanes = 2)
                /\ (a \in 11..17) => (det_type = ty /\ det_osets = 3)
                /\ (a = 18 /\ NoLaterFire(i)) =>
                       (det_osets = 0 /\ ev.type = ty /\ ev.lanes = 16 /\ ev.cycles = 8)

\* the event of a TS2 at the lower alignment has ended
C10_Witness ==
    \E i \in DOMAIN os_log :
        /\ os_log[i].kind = "TS2"
        /\ os_log[i].lane = 1
        /\ os_log[i].age = 18
        /\ ev.type = TS2
        /\ det_osets = 0

(***************************************************************************)
(* Properties of Descrambler                                               *)
(* In a state with dcycle >= 1, desc_in and lfsr_prev are the sink word    *)
(* and lfsr.value of the cycle before.                                     *)
(***************************************************************************)

\* C4: for each byte lane, if the sink's osets bit of that lane is set, the
\* byte output in that lane one cycle later is the received byte of that
\* lane, whatever the ctrl bits, the byte values and the LFSR state are.
C4_PassThrough ==
    dcycle >= 1 =>
        \A l \in {0, 1} :
            Bit(desc_in.osets, l) = 1 =>
                Slice(desc_data, 8 * l, 8 * (l + 1)) = Slice(desc_in.data, 8 * l, 8 * (l + 1))

\* a tagged all-data word whose XOR results differ from the received bytes
C4_Witness ==
    /\ dcycle >= 1
    /\ desc_in.osets = 3
    /\ desc_in.ctrl = 0
    /\ CtrlUpper(desc_in, lfsr_prev) # UPPER_BYTE(desc_in.data)
    /\ CtrlLower(desc_in, lfsr_prev) # LOWER_BYTE(desc_in.data)
    /\ desc_data = desc_in.data

\* the first bytes of the reference keystream
RefKeystream == <<255, 23, 192, 20>>

\* C16: neither DetectOrderedSets nor Descrambler ever exerts backpressure:
\* each asserts sink.ready in every cycle.
C16_AlwaysReady == det_sink_ready /\ desc_sink_ready

\* C11: from the reset state 0xFFFF, all-zero all-data words (ctrl = 0b00,
\* osets = 0b00) make the Descrambler output the keystream: the n-th word
\* carries in its upper byte the bit-reversed high byte of the LFSR state
\* after 2n - 2 one-byte advances and in its lower byte that after 2n - 1,
\* which begins FF, 17, C0, 14.
C11_Keystream ==
    zrun.n >= 1 =>
        /\ UPPER_BYTE(desc_data) = KeyByte(zrun.ref)
        /\ LOWER_BYTE(desc_data) = KeyByte(ByteTime(zrun.ref))
        /\ (zrun.n <= 2 => /\ UPPER_BYTE(desc_data) = RefKeystream[(2 * zrun.n) - 1]
                           /\ LOWER_BYTE(desc_data) = RefKeystream[2 * zrun.n])

\* the second zero word after reset has left the source showing C0, 14
C11_Witness ==
    /\ zrun.n = 2
    /\ dcycle = 2
    /\ desc_data = (192 * 256) + 20

\* the byte a lane of the source shows for the sink word snk and the register
\* v of the cycle before: the received byte if the lane is tagged or is a K
\* symbol, else the received byte XORed with a byte made of register bits
LaneOfWord(snk, v, l) ==
    IF Bit(snk.osets, l) = 1 \/ Bit(snk.ctrl, l) = 1
    THEN {Slice(snk.data, 8 * l, 8 * (l + 1))}
    ELSE { ByteXor(Slice(snk.data, 8 * l, 8 * (l + 1)), k) :
             k \in {KeyByte(v), KeyByte(ByteTime(v)), 255} }

\* C21: one-cycle latency: in every cycle t+1 the source's ctrl, osets and
\* type are the sink's of cycle t, and the source data is made of the sink
\* data and the LFSR state of cycle t, so that the data and the tags of one
\* word leave together.
C21_OneCycle ==
    dcycle >= 1 =>
        /\ desc_ctrl = desc_in.ctrl
        /\ desc_osets = desc_in.osets
        /\ desc_type = desc_in.type
        /\ LOWER_BYTE(desc_data) \in LaneOfWord(desc_in, lfsr_prev, 0)
        /\ UPPER_BYTE(desc_data) \in LaneOfWord(desc_in, lfsr_prev, 1)

\* a word with tags and data unlike those of the word before it has left
C21_Witness ==
    /\ dcycle >= 2
    /\ desc_in = [data |-> 165, ctrl |-> 2, osets |-> 1, type |-> SKIP]
    /\ desc_ctrl = 2
    /\ desc_osets = 1
    /\ desc_type = SKIP
    /\ desc_data = 165
    /\ lfsr_prev # LFSR_VALUE_RESET

\* C17: both bytes data (ctrl = 0b00, osets = 0b00): output upper-byte bit i
\* is input upper-byte bit i XOR LFSR bit 15-i, output lower-byte bit i is
\* input lower-byte bit i XOR bit 15-i of the advance-by-1 state, and the
\* next LFSR state is the advance-by-2 state, for i in 0..7 and every state.
C17_BothData ==
    (dcycle >= 1 /\ desc_in.ctrl = 0 /\ desc_in.osets = 0) =>
        /\ \A i \in 0..7 :
             /\ Bit(desc_data, i + 8) = (Bit(desc_in.data, i + 8) + Bit(lfsr_prev, 15 - i)) % 2
             /\ Bit(desc_data, i)
                = (Bit(desc_in.data, i) + Bit(ByteTime(lfsr_prev), 15 - i)) % 2
        /\ lfsr_value = ByteTime(ByteTime(lfsr_prev))

\* a data word descrambled in a state other than the reset state
C17_Witness ==
    /\ dcycle >= 1
    /\ desc_in.ctrl = 0
    /\ desc_in.osets = 0
    /\ lfsr_prev = 4660
    /\ desc_in.data = (165 * 256) + 165
    /\ UPPER_BYTE(desc_data) # LOWER_BYTE(desc_data)
    /\ lfsr_value # lfsr_prev

\* the K symbol of a word with exactly one (ctrl = 0b01: lower, 0b10: upper)
OneK(snk) == IF snk.ctrl = 1 THEN LOWER_BYTE(snk.data) ELSE UPPER_BYTE(snk.data)

OneKOut == IF desc_in.ctrl = 1 THEN LOWER_BYTE(desc_data) ELSE UPPER_BYTE(desc_data)

\* C18: exactly one K-type byte (ctrl = 0b01 or 0b10): the K-type byte is
\* output unchanged, and the next LFSR state is the reset constant 0xFFFF if
\* it is COM, the advance-by-1 state if it is K28.0 and the advance-by-2
\* state for any other K character, whichever lane it occupies.
C18_OneK ==
    (dcycle >= 1 /\ desc_in.ctrl \in {1, 2}) =>
        /\ OneKOut = OneK(desc_in)
        /\ lfsr_value = IF OneK(desc_in) = COM THEN LFSR_VALUE_RESET
                        ELSE IF OneK(desc_in) = K(28, 0) THEN ByteTime(lfsr_prev)
                        ELSE ByteTime(ByteTime(lfsr_prev))

\* C18 as the code has it: a COM in the lower lane leaves the reset constant
\* 0xFFFF, a COM in the upper lane leaves 0xE817, the reset constant advanced
\* by one for the data byte that follows it in the same word.
C18_OneKLane ==
    (dcycle >= 1 /\ desc_in.ctrl \in {1, 2}) =>
        /\ OneKOut = OneK(desc_in)
        /\ lfsr_value = IF OneK(desc_in) = COM
                        THEN (IF desc_in.ctrl = 1 THEN LFSR_VALUE_RESET
                              ELSE ByteTime(LFSR_VALUE_RESET))
                        ELSE IF OneK(desc_in) = K(28, 0) THEN ByteTime(lfsr_prev)
                        ELSE ByteTime(ByteTime(lfsr_prev))

\* a COM in the upper lane, then one in the lower lane, of a one-K word
C18_Witness ==
    /\ dcycle >= 1
    /\ lfsr_prev = 4660
    /\ \/ (desc_in.ctrl = 2 /\ UPPER_BYTE(desc_in.data) = COM /\ lfsr_value = 59415)
       \/ (desc_in.ctrl = 1 /\ LOWER_BYTE(desc_in.data) = COM /\ lfsr_value = 65535)

\* C19: both bytes K-type (ctrl = 0b11): both bytes are output unchanged and
\* the next LFSR state follows the priority chain: COM in the upper lane
\* forces the reset constant; otherwise COM in the lower lane forces it;
\* otherwise K28.0 in either lane, or in both, forces advance-by-1; otherwise
\* advance-by-2.
C19_BothKChain ==
    (dcycle >= 1 /\ desc_in.ctrl = 3) =>
        /\ desc_data = desc_in.data
        /\ lfsr_value = IF UPPER_BYTE(desc_in.data) = COM THEN LFSR_VALUE_RESET
                        ELSE IF LOWER_BYTE(desc_in.data) = COM THEN LFSR_VALUE_RESET
                        ELSE IF K(28, 0) \in {UPPER_BYTE(desc_in.data), LOWER_BYTE(desc_in.data)}
                        THEN ByteTime(lfsr_prev)
                        ELSE ByteTime(ByteTime(lfsr_prev))

\* what one K symbol does to the register: COM resets it, K28.0 leaves it
\* alone, any other advances it by one
AfterK(b, v) ==
    IF b = COM THEN LFSR_VALUE_RESET ELSE IF b = K(28, 0) THEN v ELSE ByteTime(v)

\* C19 as the code has it: both bytes are output unchanged and the next LFSR
\* state is that of taking the upper symbol and then the lower symbol, one by
\* one: COM below gives 0xFFFF; COM above gives 0xFFFF before K28.0 and
\* 0xE817 before another K symbol; two K28.0 hold the value.
C19_BothKSerial ==
    (dcycle >= 1 /\ desc_in.ctrl = 3) =>
        /\ desc_data = desc_in.data
        /\ lfsr_value = AfterK(LOWER_BYTE(desc_in.data),
                               AfterK(UPPER_BYTE(desc_in.data), lfsr_prev))

\* two K28.0 held the register
C19_Witness ==
    /\ dcycle >= 1
    /\ desc_in.ctrl = 3
    /\ desc_in.data = TWO(K(28, 0))
    /\ lfsr_prev = 4660
    /\ lfsr_value = lfsr_prev

\* C20: a K-type COM in the upper lane with an untagged data byte in the
\* lower lane (ctrl = 0b10): the lower output byte is the received byte XOR
\* 0xFF and the next LFSR state is 0xE817, which is the result of resetting
\* the LFSR to 0xFFFF on the COM, descrambling the byte with the reset state
\* and advancing once, whatever the LFSR state before the word.
C20_PostReset ==
    (/\ dcycle >= 1
     /\ desc_in.ctrl = 2
     /\ UPPER_BYTE(desc_in.data) = COM
     /\ Bit(desc_in.osets, 0) = 0) =>
        /\ \A i \in 0..7 : Bit(desc_data, i) = 1 - Bit(desc_in.data, i)
        /\ \A i \in 0..7 :
             Bit(desc_data, i)
             = (Bit(desc_in.data, i) + Bit(KeyByte(LFSR_VALUE_RESET), i)) % 2
        /\ lfsr_value = 59415
        /\ lfsr_value = ByteTime(LFSR_VALUE_RESET)

\* the adjustment was made in a state other than the reset state
C20_Witness ==
    /\ dcycle >= 1
    /\ desc_in.ctrl = 2
    /\ desc_in.osets = 0
    /\ desc_in.data = (COM * 256) + 165
    /\ lfsr_prev = 4660
    /\ LOWER_BYTE(desc_data) = 90
    /\ lfsr_value = 59415

(***************************************************************************)
(* Properties of the round trip                                            *)
(* The word presented at the detector in cycle c - 11 is at the            *)
(* descrambler's source in cycle c, in the detector's lane order.          *)
(***************************************************************************)

\* C3: for every word sent after the first COM, at either lane alignment,
\* the DetectOrderedSets -> Descrambler pipeline outputs exactly the original
\* unscrambled bytes.
C3_RoundTrip ==
    (cycle >= 11 /\ orig_hist[11].sync) => desc_data = Exchanged(orig_hist[11]).data

(***************************************************************************)
(* Properties of the lfsr tap functions                                    *)
(***************************************************************************)
\* C31: for every 16-bit value of the register, next1 is the value reached by
\* eight single-bit steps of the Galois LFSR of x^16 + x^5 + x^4 + x^3 + 1,
\* and next2 is next1 applied to next1, the value reached by sixteen steps.
C31_TapFunctions ==
    /\ dcycle = 1 => lfsr_value = ByteTime(lfsr_prev)
    /\ dcycle = 2 => /\ lfsr_value = ByteTime(ByteTime(lfsr_prev))
                     /\ lfsr_value = next1(next1(lfsr_prev))

\* next2 was loaded into a register whose feedback bit 15 and whose bits 14
\* and 3 were set
C31_Witness ==
    /\ dcycle = 2
    /\ lfsr_prev = 49160
    /\ lfsr_value = ByteTime(ByteTime(49160))

(***************************************************************************)
(* The Descrambler against a byte-serial reference                         *)
(***************************************************************************)
\* the byte-serial reference: what one symbol <<byte b, K flag k>> does to
\* the register
RefSymbol(b, k, v) ==
    IF k = 1 /\ b = 188 THEN 65535
    ELSE IF k = 1 /\ b = 28 THEN v
    ELSE ByteTime(v)

\* the register of the reference after the two symbols of a sink word, the
\* leading symbol in the upper byte
RefWord(snk, v) ==
    RefSymbol(LOWER_BYTE(snk.data), Bit(snk.ctrl, 0),
              RefSymbol(UPPER_BYTE(snk.data), Bit(snk.ctrl, 1), v))

\* C32: after every cycle the LFSR state is the state of the byte-serial
\* reference that takes the word's upper symbol and then its lower symbol (a
\* K-type COM sets 0xFFFF, a K-type K28.0 holds, any other symbol advances by
\* one byte time), whatever the osets mask of the word.
C32_ByteSerial == dcycle >= 1 => lfsr_value = RefWord(desc_in, lfsr_prev)

\* a fully tagged data word advanced a register that was not at reset by two
\* byte times
C32_Witness ==
    /\ dcycle >= 2
    /\ desc_in.ctrl = 0
    /\ desc_in.osets = 3
    /\ lfsr_prev = LFSR_VALUE_NEXT_AFTER_RESET
    /\ lfsr_value = ByteTime(ByteTime(LFSR_VALUE_NEXT_AFTER_RESET))

\* the register of the reference when it takes the lower symbol of the word
RefBeforeLower(snk, v) == RefSymbol(UPPER_BYTE(snk.data), Bit(snk.ctrl, 1), v)

\* C33: every untagged D-type byte leaves XORed with the keystream byte of the
\* byte-serial reference at its symbol position: the upper byte with that of
\* the state before the word, the lower byte with that of the state after the
\* upper symbol (one byte time on when the upper symbol is a K character
\* other than COM and K28.0).
C33_KeystreamPosition ==
    dcycle >= 1 =>
        /\ (Bit(desc_in.ctrl, 1) = 0 /\ Bit(desc_in.osets, 1) = 0) =>
               UPPER_BYTE(desc_data) = ByteXor(UPPER_BYTE(desc_in.data), KeyByte(lfsr_prev))
        /\ (Bit(desc_in.ctrl, 0) = 0 /\ Bit(desc_in.osets, 0) = 0) =>
               LOWER_BYTE(desc_data)
                   = ByteXor(LOWER_BYTE(desc_in.data),
                             KeyByte(RefBeforeLower(desc_in, lfsr_prev)))

(***************************************************************************)
(* The mask of a set detected at the lower alignment                       *)
(***************************************************************************)
\* C34: for a set whose COM is the trailing symbol of its word, the mask
\* registered by the detection tags the COM's lane only (0b01), the words
\* that follow are tagged in both lanes, the set's last symbol, the leading
\* one of its word, is tagged alone (0b10), and the lanes tagged over the
\* event are as many as the set has symbols: no lane before the COM and every
\* lane of the set is tagged.
C34_OnlyTheSet ==
    \A i \in DOMAIN os_log :
        (os_log[i].kind \in Recognisable /\ os_log[i].lane = 1 /\ FreeDataAfter(i)) =>
            LET a == os_log[i].age
                n == Len(SetSyms(os_log[i].kind))
            IN  /\ a = 10 => (det_osets = 1 /\ det_type = KindType(os_log[i].kind))
                /\ (a > 10 /\ a < 10 + (n \div 2)) => det_osets = 3
                /\ a = 10 + (n \div 2) => det_osets = 2
                /\ a = 11 + (n \div 2) => (det_osets = 0 /\ ev.lanes = n)

(***************************************************************************)
(* The two DetectOrderedSets side by side                                  *)
(***************************************************************************)
\* C35: fed the same sink data and ctrl, the DetectOrderedSets of
\* detect_ordered_sets.py and the one of descrambler.py show the same
\* source.data, source.ctrl, source.osets and source.type in every cycle,
\* whether sink.valid is high or low in it.
C35_SameOutputs ==
    /\ dup_source_data = det_source_data
    /\ dup_source_ctrl = det_source_ctrl
    /\ dd_osets = det_osets
    /\ dd_type = det_type

\* the same, for the cycles in which sink.valid is high
C35_SameWhileValid == det_sink_valid => C35_SameOutputs

(***************************************************************************)
(* RXSKPRemover in front of a downstream that is always ready              *)
(***************************************************************************)
\* C36: with source.ready high in every cycle the fill count is at most 7 in
\* every state, sink.ready is high, and the word offered at a clock edge was
\* accepted at it.
C36_NeverStalls ==
    /\ sr_bytes <= 7
    /\ sink_ready
    /\ hs.offer => hs.acc

\* a word of four bytes was accepted at the fill count 7, in the cycle of an
\* output transfer, and the fill count is 7 again
C36_Witness ==
    /\ hs.fill = 7
    /\ hs.offer /\ hs.acc /\ hs.out
    /\ sr_bytes = 7

(***************************************************************************)
(* Properties of Recorder                                                  *)
(***************************************************************************)
\* the number a register holds, for registers below 2^31
RecValue(v) == (v.hi * Half) + v.lo

\* the run the last start pulse began is over
RecRunOver == rec_state = "IDLE" /\ rec_hs.state = "RUN"

\* C37: after a start pulse with base B and length L, for every L and also
\* for L = 0, the writes issued are at most L, the k-th of them (k from 0) at
\* address B + k, they are exactly L when the FSM is back in IDLE, and a clock
\* edge at which the FSM is in IDLE issues no write and takes no word.
C37_ExactlyL ==
    /\ Len(rec_log) <= RecValue(rec_length)
    /\ \A k \in 1..Len(rec_log) : rec_log[k] = U32(RecValue(rec_base) + (k - 1))
    /\ RecRunOver => Len(rec_log) = RecValue(rec_length)
    /\ rec_hs.state = "IDLE" => (~rec_hs.wrote /\ ~rec_hs.took)

\* the same for the runs whose length register is not 0
C37_ExactlyLPositive == rec_length # U32(0) => C37_ExactlyL

\* the end of the run is within the writes that are followed: the length
\* register is not 0, or count is in the last 65536 values of its 32 bits
RecNearEnd == rec_length # U32(0) \/ rec_count.hi = Half - 1

C39_HeldAtZero ==
    /\ ~bist_hs.enable => bist_errors = U32(0)
    /\ bist_errors = U32(bist_ref)

(***************************************************************************)
(* The LFSR over runs of any length                                        *)
(***************************************************************************)
\* C40: from the reset value 0xFFFF, whatever words are received, lfsr.value
\* is never 0x0000.
C40_NeverZero == lfsr_value # 0

\* the register holds the value 1, a single bit, from which seven bit times
\* without feedback follow
C40_Witness == lfsr_value = 1
====
